---- MODULE Spec2Model ----
(***************************************************************************)
(* Model of notebook.ipynb: a text-classification checkpoint is exported   *)
(* to ONNX, graph-optimized, dynamically quantized, evaluated, benchmarked *)
(* pushed to the Hub and loaded back.  The notebook is a list of code      *)
(* cells run top to bottom by one kernel; each statement of a cell is one  *)
(* step, and a statement that calls into a library either returns or       *)
(* raises.  A raise aborts the cell and stops the run.                     *)
(***************************************************************************)
EXTENDS Integers, Sequences, FiniteSets, TLC

(* ---------------- bounds of the model ---------------- *)
NumCheckpoints == 2

MaxAccuracy == 1

(* ---------------- constants of the notebook ---------------- *)
WarmupRuns == 10

TimedRuns == 300

onnx_path == "onnx"

tmp_store_directory == "onnx_hub_repo"

LoadRepo == "philschmid/distilbert-onnx-banking77"

\* The checkpoints model_id may name: checkpoint k has label mapping k and
\* vocabulary k.
Checkpoints == {[labels |-> k, vocab |-> k] : k \in 1..NumCheckpoints}

Users == {"philschmid", "other"}

(* ---------------- files ---------------- *)
ModelFiles == {"model.onnx", "model-optimized.onnx", "model-quantized.onnx"}

ConfigFile == "config.json"

TokenizerFile == "tokenizer.json"

FileNames == ModelFiles \cup {ConfigFile, TokenizerFile}

Dirs == {onnx_path, tmp_store_directory}

Repos == {"philschmid/distilbert-onnx-banking77", "other/distilbert-onnx-banking77"}

\* A file's content.  An ONNX file records the transformations that produced
\* its graph and the vocabulary its embedding was trained with; config.json
\* records the label mapping; the tokenizer files record the vocabulary.
File(k, s, l, v) == [kind |-> k, steps |-> s, labels |-> l, vocab |-> v]

Absent == File("absent", <<>>, 0, 0)

OnnxFile(s, v) == File("onnx", s, 0, v)

ConfigOf(l) == File("config", <<>>, l, 0)

TokenizerOf(v) == File("tokenizer", <<>>, 0, v)

EmptyDir == [f \in FileNames |-> Absent]

\* In-memory objects.
NoModel == [file |-> "none", art |-> Absent, config |-> Absent]

NoTokenizer == Absent

NoPipeline == [model |-> NoModel, tokenizer |-> NoTokenizer]

NoResults == [accuracy |-> -1, label_mapping |-> 0]

NoStats == [n |-> 0, sum |-> 0, p95 |-> 0]

(* ---------------- stages ---------------- *)
Stages == {"export", "optimize", "quantize", "evaluate", "benchmark", "publish", "load"}

StageOrder == <<"export", "optimize", "quantize", "evaluate", "benchmark", "publish", "load">>

\* The statements of the code cells, in the order the cells appear.
Program ==
  << "export_model", "export_tokenizer", "save_model", "save_tokenizer",
     "vanilla_clf",
     "optimize",
     "load_optimized",
     "quantize",
     "sizes",
     "load_quantized", "load_tokenizer", "q8_clf",
     "evaluate", "report",
     "bench_vanilla", "bench_q8", "bench_report",
     "login",
     "stage_model", "stage_tokenizer", "push",
     "hub_load_model", "hub_load_tokenizer", "remote_clx",
     "finished" >>

Labels == {Program[i] : i \in 1..Len(Program)} \cup {"halted"}

IndexOf(label) == CHOOSE i \in 1..Len(Program) : Program[i] = label

\* The stage a statement belongs to; the cells that only build a pipeline
\* and try it on one sentence, print, or log in belong to no stage.
StageOf(label) ==
  CASE label \in {"export_model", "export_tokenizer", "save_model", "save_tokenizer"} -> "export"
    [] label = "optimize" -> "optimize"
    [] label = "quantize" -> "quantize"
    [] label = "evaluate" -> "evaluate"
    [] label \in {"bench_vanilla", "bench_q8", "bench_report"} -> "benchmark"
    [] label \in {"stage_model", "stage_tokenizer", "push"} -> "publish"
    [] label \in {"hub_load_model", "hub_load_tokenizer", "remote_clx"} -> "load"
    [] OTHER -> "none"

FirstOf(stage) == Program[CHOOSE i \in 1..Len(Program) :
                     /\ StageOf(Program[i]) = stage
                     /\ \A j \in 1..(i-1) : StageOf(Program[j]) # stage]

LastOf(stage) == Program[CHOOSE i \in 1..Len(Program) :
                    /\ StageOf(Program[i]) = stage
                    /\ \A j \in (i+1)..Len(Program) : StageOf(Program[j]) # stage]

\* The kernel runs the statement that follows the one that returned.
NextLabelRerun(label) ==
  IF label = "quantize" THEN "optimize" ELSE Program[IndexOf(label) + 1]

NextLabel(label) == Program[IndexOf(label) + 1]

\* No cell has a try/except: an exception ends the cell and the run.
AfterRaiseRetry(label) == FirstOf(StageOf(label))

AfterRaise(label) == "halted"

VARIABLES
  pc,             \* the statement to run next, "halted" after an exception
  err,            \* the exception shown to the caller, "none" if there is none
  failedAt,       \* the statement that raised
  status,         \* per stage: "pending", "running", "done", "failed"
  started,        \* per stage: how many times it was started
  source,         \* the checkpoint behind model_id: its label mapping and vocabulary
  user,           \* the account notebook_login logs into
  fs,             \* local directories: directory -> file name -> content
  hub,            \* Hub repositories: repository -> file name -> content
  hubBefore,      \* the destination repository's content when publish began
  model,          \* the global `model`
  tokenizer,      \* the global `tokenizer`
  vanilla_clf, optimized_clf, q8_clf, remote_clx,
  results,        \* the global `results` of eval.compute
  reads,          \* the artifact files each stage has read: set of <<stage, file, content>>
  bench,          \* measure_latency's frame: pipe, phase, loop counter
  latencies,      \* measure_latency's list `latencies`
  calls,          \* the calls of pipe(payload) made by the running measure_latency
  clock,          \* perf_counter
  vanilla_model, quantized_model   \* the statistics returned by measure_latency

vars == << pc, err, failedAt, status, started, source, user, fs, hub, hubBefore,
           model, tokenizer, vanilla_clf, optimized_clf, q8_clf, remote_clx,
           results, reads, bench, latencies, calls, clock,
           vanilla_model, quantized_model >>

(* ---------------- the state before the first cell ---------------- *)

\* push_to_hub(..., repository_id=repository_id) pushes to that repository
\* in the namespace of the logged-in account.
DestRepo == IF user = "philschmid" THEN "philschmid/distilbert-onnx-banking77"
            ELSE "other/distilbert-onnx-banking77"

\* What a Hub repository may hold before the notebook runs: nothing, a bundle
\* pushed earlier, or a model and a tokenizer that do not belong together.
PriorContents ==
  { EmptyDir,
    [EmptyDir EXCEPT !["model.onnx"] = OnnxFile(<<"prior">>, 1),
                     ![ConfigFile] = ConfigOf(1),
                     ![TokenizerFile] = TokenizerOf(1)],
    [EmptyDir EXCEPT !["model.onnx"] = OnnxFile(<<"prior">>, 1),
                     ![ConfigFile] = ConfigOf(1),
                     ![TokenizerFile] = TokenizerOf(2)] }

Init ==
  /\ pc = Program[1]
  /\ err = "none"
  /\ failedAt = "none"
  /\ status = [s \in Stages |-> "pending"]
  /\ started = [s \in Stages |-> 0]
  /\ source \in Checkpoints
  /\ user \in Users
  /\ fs = [d \in Dirs |-> EmptyDir]
  /\ hub \in [Repos -> PriorContents]
  /\ \A r \in Repos : r \notin {DestRepo, LoadRepo} => hub[r] = EmptyDir
  /\ hubBefore = EmptyDir
  /\ model = NoModel
  /\ tokenizer = NoTokenizer
  /\ vanilla_clf = NoPipeline
  /\ optimized_clf = NoPipeline
  /\ q8_clf = NoPipeline
  /\ remote_clx = NoPipeline
  /\ results = NoResults
  /\ reads = {}
  /\ bench = [pipe |-> "none", phase |-> "idle", i |-> 0]
  /\ latencies = <<>>
  /\ calls = <<>>
  /\ clock = 0
  /\ vanilla_model = NoStats
  /\ quantized_model = NoStats

(* ---------------- control ---------------- *)

StatusAfter(label, outcome) ==
  LET s == StageOf(label) IN
  IF s = "none" THEN status
  ELSE [status EXCEPT ![s] = IF outcome = "raise" THEN "failed"
                             ELSE IF label = LastOf(s) THEN "done" ELSE "running"]

StartedAfter(label) ==
  LET s == StageOf(label) IN
  IF s # "none" /\ label = FirstOf(s) THEN [started EXCEPT ![s] = @ + 1] ELSE started

\* The statement returns: the kernel goes on to the next one.
Return(label) ==
  /\ pc' = NextLabel(label)
  /\ status' = StatusAfter(label, "return")
  /\ started' = StartedAfter(label)
  /\ UNCHANGED << err, failedAt >>

\* The statement raises: the traceback is shown and nothing else runs.
Raise(label) ==
  /\ pc' = AfterRaise(label)
  /\ err' = "exception"
  /\ failedAt' = label
  /\ status' = StatusAfter(label, "raise")
  /\ started' = StartedAfter(label)

\* pipe(payload) raises inside measure_latency: the exception leaves the
\* function and the cell.
RaiseInCall(label) ==
  /\ pc' = AfterRaise(label)
  /\ err' = "exception"
  /\ failedAt' = label
  /\ status' = StatusAfter(label, "raise")

Pipelines == << vanilla_clf, optimized_clf, q8_clf, remote_clx >>

Bench == << bench, latencies, calls, clock, vanilla_model, quantized_model >>

Env == << source, user >>

(* ---------------- library calls ---------------- *)

\* ORTModelForSequenceClassification.from_pretrained(dir, file_name=f): the
\* graph in dir/f with the configuration in dir/config.json.
LoadModelDefaultFile(files, f) ==
  [file |-> "model.onnx", art |-> files["model.onnx"], config |-> files[ConfigFile]]

LoadModel(files, f) == [file |-> f, art |-> files[f], config |-> files[ConfigFile]]

CanLoadModel(files, f) == files[f].kind = "onnx" /\ files[ConfigFile].kind = "config"

\* AutoTokenizer.from_pretrained(dir)
LoadTokenizerDefault(files) == TokenizerOf(1)

LoadTokenizer(files) == files[TokenizerFile]

CanLoadTokenizer(files) == files[TokenizerFile].kind = "tokenizer"

\* model.save_pretrained(dir): the graph as model.onnx, and config.json.
SaveModelNoConfig(files, m) == [files EXCEPT !["model.onnx"] = m.art]

SaveModel(files, m) == [files EXCEPT !["model.onnx"] = m.art, ![ConfigFile] = m.config]

\* tokenizer.save_pretrained(dir)
SaveTokenizerSkipped(files, t) == files

SaveTokenizer(files, t) == [files EXCEPT ![TokenizerFile] = t]

\* pipeline("text-classification", model=m, tokenizer=t) keeps the two objects.
pipeline(m, t) == [model |-> m, tokenizer |-> t]

(* ---------------- cell: export ---------------- *)

\* model = ORTModelForSequenceClassification.from_pretrained(model_id, from_transformers=True)
ExportModel ==
  /\ pc = "export_model"
  /\ \E ok \in BOOLEAN :
       IF ok
       THEN /\ model' = [file |-> "model.onnx",
                         art |-> OnnxFile(<<"export">>, source.vocab),
                         config |-> ConfigOf(source.labels)]
            /\ Return("export_model")
       ELSE /\ Raise("export_model")
            /\ UNCHANGED model
  /\ UNCHANGED << Env, fs, hub, hubBefore, tokenizer, Pipelines, results, reads, Bench >>

\* tokenizer = AutoTokenizer.from_pretrained(model_id)
ExportTokenizer ==
  /\ pc = "export_tokenizer"
  /\ \E ok \in BOOLEAN :
       IF ok
       THEN /\ tokenizer' = TokenizerOf(source.vocab)
            /\ Return("export_tokenizer")
       ELSE /\ Raise("export_tokenizer")
            /\ UNCHANGED tokenizer
  /\ UNCHANGED << Env, fs, hub, hubBefore, model, Pipelines, results, reads, Bench >>

\* model.save_pretrained(onnx_path)
SaveExportedModel ==
  /\ pc = "save_model"
  /\ \E ok \in BOOLEAN :
       IF ok
       THEN /\ fs' = [fs EXCEPT ![onnx_path] = SaveModel(@, model)]
            /\ Return("save_model")
       ELSE /\ Raise("save_model")
            /\ UNCHANGED fs
  /\ UNCHANGED << Env, hub, hubBefore, model, tokenizer, Pipelines, results, reads, Bench >>

\* tokenizer.save_pretrained(onnx_path)
SaveExportedTokenizer ==
  /\ pc = "save_tokenizer"
  /\ \E ok \in BOOLEAN :
       IF ok
       THEN /\ fs' = [fs EXCEPT ![onnx_path] = SaveTokenizer(@, tokenizer)]
            /\ Return("save_tokenizer")
       ELSE /\ Raise("save_tokenizer")
            /\ UNCHANGED fs
  /\ UNCHANGED << Env, hub, hubBefore, model, tokenizer, Pipelines, results, reads, Bench >>

(* ---------------- cell: vanilla pipeline ---------------- *)

\* vanilla_clf = pipeline("text-classification", model=model, tokenizer=tokenizer)
VanillaClf ==
  /\ pc = "vanilla_clf"
  /\ \E ok \in BOOLEAN :
       IF ok
       THEN /\ vanilla_clf' = pipeline(model, tokenizer)
            /\ Return("vanilla_clf")
       ELSE /\ Raise("vanilla_clf")
            /\ UNCHANGED vanilla_clf
  /\ UNCHANGED << Env, fs, hub, hubBefore, model, tokenizer, optimized_clf, q8_clf,
                  remote_clx, results, reads, Bench >>

(* ---------------- cell: graph optimization ---------------- *)

\* optimizer.export(onnx_model_path=onnx_path / "model.onnx", ...)
OptimizerInput == "model.onnx"

\* optimizer.export(..., onnx_optimized_model_output_path=onnx_path / "model-optimized.onnx")
OptimizerOutputInPlace == "model.onnx"

OptimizerOutput == "model-optimized.onnx"

\* The graph a transformation writes: the graph it read, transformed.
Transformed(input, step) == OnnxFile(Append(input.steps, step), input.vocab)

\* optimizer.export(...): reads the input file, writes the output file.
Optimize ==
  /\ pc = "optimize"
  /\ LET input == fs[onnx_path][OptimizerInput] IN
     /\ reads' = reads \cup {<< "optimize", OptimizerInput, input >>}
     /\ \E ok \in BOOLEAN :
          IF ok /\ input.kind = "onnx"
          THEN /\ fs' = [fs EXCEPT ![onnx_path][OptimizerOutput] = Transformed(input, "optimize")]
               /\ Return("optimize")
          ELSE /\ Raise("optimize")
               /\ UNCHANGED fs
  /\ UNCHANGED << Env, hub, hubBefore, model, tokenizer, Pipelines, results, Bench >>

\* model = ORTModelForSequenceClassification.from_pretrained(onnx_path, file_name="model-optimized.onnx")
\* optimized_clf = pipeline("text-classification", model=model, tokenizer=tokenizer)
LoadOptimized ==
  /\ pc = "load_optimized"
  /\ \E ok \in BOOLEAN :
       IF ok /\ CanLoadModel(fs[onnx_path], "model-optimized.onnx")
       THEN /\ model' = LoadModel(fs[onnx_path], "model-optimized.onnx")
            /\ optimized_clf' = pipeline(model', tokenizer)
            /\ Return("load_optimized")
       ELSE /\ Raise("load_optimized")
            /\ UNCHANGED << model, optimized_clf >>
  /\ UNCHANGED << Env, fs, hub, hubBefore, tokenizer, vanilla_clf, q8_clf, remote_clx,
                  results, reads, Bench >>

(* ---------------- cell: dynamic quantization ---------------- *)

\* dynamic_quantizer.export(onnx_model_path=onnx_path / "model-optimized.onnx", ...)
QuantizerInputExported == "model.onnx"

QuantizerInput == "model-optimized.onnx"

\* dynamic_quantizer.export(..., onnx_quantized_model_output_path=onnx_path / "model-quantized.onnx")
QuantizerOutput == "model-quantized.onnx"

Quantize ==
  /\ pc = "quantize"
  /\ LET input == fs[onnx_path][QuantizerInput] IN
     /\ reads' = reads \cup {<< "quantize", QuantizerInput, input >>}
     /\ \E ok \in BOOLEAN :
          IF ok /\ input.kind = "onnx"
          THEN /\ fs' = [fs EXCEPT ![onnx_path][QuantizerOutput] = Transformed(input, "quantize")]
               /\ Return("quantize")
          ELSE /\ Raise("quantize")
               /\ UNCHANGED fs
  /\ UNCHANGED << Env, hub, hubBefore, model, tokenizer, Pipelines, results, Bench >>

\* os.path.getsize of model-optimized.onnx and model-quantized.onnx, printed.
Sizes ==
  /\ pc = "sizes"
  /\ Return("sizes")
  /\ UNCHANGED << Env, fs, hub, hubBefore, model, tokenizer, Pipelines, results, reads, Bench >>

(* ---------------- cell: quantized pipeline ---------------- *)

\* model = ORTModelForSequenceClassification.from_pretrained(onnx_path, file_name="model-quantized.onnx")
\* The name `model` is bound to a new object; the objects the pipelines
\* were built with are left as they are.
LoadQuantizedRebindsPipelines ==
  /\ pc = "load_quantized"
  /\ \E ok \in BOOLEAN :
       IF ok /\ CanLoadModel(fs[onnx_path], "model-quantized.onnx")
       THEN /\ model' = LoadModel(fs[onnx_path], "model-quantized.onnx")
            /\ vanilla_clf' = [vanilla_clf EXCEPT !.model = model']
            /\ optimized_clf' = [optimized_clf EXCEPT !.model = model']
            /\ Return("load_quantized")
       ELSE /\ Raise("load_quantized")
            /\ UNCHANGED << model, vanilla_clf, optimized_clf >>
  /\ UNCHANGED << Env, fs, hub, hubBefore, tokenizer, q8_clf, remote_clx, results, reads, Bench >>

LoadQuantized ==
  /\ pc = "load_quantized"
  /\ \E ok \in BOOLEAN :
       IF ok /\ CanLoadModel(fs[onnx_path], "model-quantized.onnx")
       THEN /\ model' = LoadModel(fs[onnx_path], "model-quantized.onnx")
            /\ Return("load_quantized")
       ELSE /\ Raise("load_quantized")
            /\ UNCHANGED model
  /\ UNCHANGED << Env, fs, hub, hubBefore, tokenizer, Pipelines, results, reads, Bench >>

\* tokenizer = AutoTokenizer.from_pretrained(onnx_path)
LoadLocalTokenizer ==
  /\ pc = "load_tokenizer"
  /\ \E ok \in BOOLEAN :
       IF ok /\ CanLoadTokenizer(fs[onnx_path])
       THEN /\ tokenizer' = LoadTokenizer(fs[onnx_path])
            /\ Return("load_tokenizer")
       ELSE /\ Raise("load_tokenizer")
            /\ UNCHANGED tokenizer
  /\ UNCHANGED << Env, fs, hub, hubBefore, model, Pipelines, results, reads, Bench >>

\* q8_clf = pipeline("text-classification", model=model, tokenizer=tokenizer)
Q8Clf ==
  /\ pc = "q8_clf"
  /\ \E ok \in BOOLEAN :
       IF ok
       THEN /\ q8_clf' = pipeline(model, tokenizer)
            /\ Return("q8_clf")
       ELSE /\ Raise("q8_clf")
            /\ UNCHANGED q8_clf
  /\ UNCHANGED << Env, fs, hub, hubBefore, model, tokenizer, vanilla_clf, optimized_clf,
                  remote_clx, results, reads, Bench >>

(* ---------------- cell: evaluation ---------------- *)

\* label_mapping=model.config.label2id
LabelMappingFixed(m) == 1

LabelMappingArg(m) == m.config.labels

\* results = eval.compute(model_or_pipeline=q8_clf, ..., label_mapping=model.config.label2id)
\* The accuracy is whatever the quantized pipeline scores on the test split.
Evaluate ==
  /\ pc = "evaluate"
  /\ \E ok \in BOOLEAN, acc \in 0..MaxAccuracy :
       IF ok
       THEN /\ results' = [accuracy |-> acc, label_mapping |-> LabelMappingArg(model)]
            /\ Return("evaluate")
       ELSE /\ Raise("evaluate")
            /\ UNCHANGED results
  /\ UNCHANGED << Env, fs, hub, hubBefore, model, tokenizer, Pipelines, reads, Bench >>

\* The three print statements that report results['accuracy'].
ReportWithRollback ==
  /\ pc = "report"
  /\ IF results.accuracy < MaxAccuracy
     THEN /\ fs' = [fs EXCEPT ![onnx_path]["model-quantized.onnx"] = Absent]
          /\ pc' = "halted"
          /\ UNCHANGED << err, failedAt, status, started >>
     ELSE /\ Return("report")
          /\ UNCHANGED fs
  /\ UNCHANGED << Env, hub, hubBefore, model, tokenizer, Pipelines, results, reads, Bench >>

Report ==
  /\ pc = "report"
  /\ Return("report")
  /\ UNCHANGED << Env, fs, hub, hubBefore, model, tokenizer, Pipelines, results, reads, Bench >>

(* ---------------- cell: latency benchmark ---------------- *)

\* measure_latency(vanilla_clf) is called first, measure_latency(q8_clf) second.
BenchArg(label) == IF label = "bench_vanilla" THEN "vanilla_clf" ELSE "q8_clf"

\* perf_counter advances while pipe(payload) runs; the first call a
\* measure_latency makes takes longer than the ones that follow.
CallTime(k) == IF k = 1 THEN 2 ELSE 1

\* pipe(payload): one more call in the log, the clock moves on.
Called(kind) == Append(calls, [kind |-> kind, start |-> clock,
                               end |-> clock + CallTime(Len(calls) + 1)])

\* latencies = []  -- the frame of a new measure_latency call
BenchEnter ==
  /\ pc \in {"bench_vanilla", "bench_q8"}
  /\ bench.phase = "idle"
  /\ bench' = [pipe |-> BenchArg(pc), phase |-> "warmup", i |-> 0]
  /\ latencies' = <<>>
  /\ calls' = <<>>
  /\ status' = [status EXCEPT !["benchmark"] = "running"]
  /\ started' = StartedAfter(pc)
  /\ UNCHANGED << pc, err, failedAt, Env, fs, hub, hubBefore, model, tokenizer, Pipelines,
                  results, reads, clock, vanilla_model, quantized_model >>

\* for _ in range(10): _ = pipe(payload)
WarmupSamplesKept(l, d) == Append(l, d)

WarmupSamples(l, d) == l

BenchWarmupCall ==
  /\ pc \in {"bench_vanilla", "bench_q8"}
  /\ bench.phase = "warmup"
  /\ bench.i < WarmupRuns
  /\ \E ok \in BOOLEAN :
       IF ok
       THEN /\ calls' = Called("warmup")
            /\ clock' = calls'[Len(calls')].end
            /\ latencies' = WarmupSamples(latencies, clock' - clock)
            /\ bench' = [bench EXCEPT !.i = @ + 1]
            /\ UNCHANGED << pc, err, failedAt, status >>
       ELSE /\ RaiseInCall(pc)
            /\ UNCHANGED << calls, clock, latencies, bench >>
  /\ UNCHANGED << started, Env, fs, hub, hubBefore, model,
                  tokenizer, Pipelines, results, reads, vanilla_model, quantized_model >>

\* The warm-up loop is over, the timed loop begins.
BenchStartTimed ==
  /\ pc \in {"bench_vanilla", "bench_q8"}
  /\ bench.phase = "warmup"
  /\ bench.i = WarmupRuns
  /\ bench' = [bench EXCEPT !.phase = "timed", !.i = 0]
  /\ UNCHANGED << pc, err, failedAt, status, started, Env, fs, hub, hubBefore, model,
                  tokenizer, Pipelines, results, reads, latencies, calls, clock,
                  vanilla_model, quantized_model >>

\* for _ in range(300):
\*     start_time = perf_counter(); _ = pipe(payload)
\*     latency = perf_counter() - start_time; latencies.append(latency)
BenchTimedCall ==
  /\ pc \in {"bench_vanilla", "bench_q8"}
  /\ bench.phase = "timed"
  /\ bench.i < TimedRuns
  /\ \E ok \in BOOLEAN :
       IF ok
       THEN /\ LET start_time == clock IN
               /\ calls' = Called("timed")
               /\ clock' = calls'[Len(calls')].end
               /\ latencies' = Append(latencies, clock' - start_time)
            /\ bench' = [bench EXCEPT !.i = @ + 1]
            /\ UNCHANGED << pc, err, failedAt, status >>
       ELSE /\ RaiseInCall(pc)
            /\ UNCHANGED << calls, clock, latencies, bench >>
  /\ UNCHANGED << started, Env, fs, hub, hubBefore, model,
                  tokenizer, Pipelines, results, reads, vanilla_model, quantized_model >>

\* The sum of l[lo..hi], added up pairwise.
RECURSIVE SumRange(_, _, _)
SumRange(l, lo, hi) ==
  IF lo > hi THEN 0
  ELSE IF lo = hi THEN l[lo]
  ELSE LET mid == (lo + hi) \div 2 IN SumRange(l, lo, mid) + SumRange(l, mid + 1, hi)

SumSeq(l) == SumRange(l, 1, Len(l))

\* The k-th smallest element of l (k from 1).
Sorted(l, k) ==
  LET vals == {l[i] : i \in 1..Len(l)}
      upTo(v) == Cardinality({i \in 1..Len(l) : l[i] <= v})
  IN CHOOSE v \in vals : upTo(v) >= k /\ \A u \in vals : u < v => upTo(u) < k

\* np.percentile(l, 95), linear interpolation, in hundredths.
Percentile95(l) ==
  LET h == 95 * (Len(l) - 1)
      lo == (h \div 100) + 1
      hi == IF lo < Len(l) THEN lo + 1 ELSE lo
  IN 100 * Sorted(l, lo) + (h % 100) * (Sorted(l, hi) - Sorted(l, lo))

\* time_avg_ms, time_p95_ms: the statistics of the list latencies (the
\* standard deviation is computed from the same list and is not modelled).
Statistics(l) == [n |-> Len(l), sum |-> SumSeq(l), p95 |-> Percentile95(l)]

\* The timed loop is over: the statistics are computed and returned.
BenchStats ==
  /\ pc \in {"bench_vanilla", "bench_q8"}
  /\ bench.phase = "timed"
  /\ bench.i = TimedRuns
  /\ IF pc = "bench_vanilla"
     THEN vanilla_model' = Statistics(latencies) /\ UNCHANGED quantized_model
     ELSE quantized_model' = Statistics(latencies) /\ UNCHANGED vanilla_model
  /\ bench' = [bench EXCEPT !.phase = "idle", !.i = 0]
  /\ pc' = NextLabel(pc)
  /\ UNCHANGED << err, failedAt, status, started, Env, fs, hub, hubBefore, model, tokenizer,
                  Pipelines, results, reads, latencies, calls, clock >>

\* The three print statements that report the two statistics.
BenchReport ==
  /\ pc = "bench_report"
  /\ Return("bench_report")
  /\ UNCHANGED << Env, fs, hub, hubBefore, model, tokenizer, Pipelines, results, reads, Bench >>

(* ---------------- cell: login ---------------- *)

\* notebook_login()
Login ==
  /\ pc = "login"
  /\ \E ok \in BOOLEAN :
       IF ok THEN Return("login") ELSE Raise("login")
  /\ UNCHANGED << Env, fs, hub, hubBefore, model, tokenizer, Pipelines, results, reads, Bench >>

(* ---------------- cell: publish ---------------- *)

\* model.save_pretrained(tmp_store_directory)
StageModel ==
  /\ pc = "stage_model"
  /\ hubBefore' = hub[DestRepo]
  /\ \E ok \in BOOLEAN :
       IF ok
       THEN /\ fs' = [fs EXCEPT ![tmp_store_directory] = SaveModel(@, model)]
            /\ Return("stage_model")
       ELSE /\ Raise("stage_model")
            /\ UNCHANGED fs
  /\ UNCHANGED << Env, hub, model, tokenizer, Pipelines, results, reads, Bench >>

\* tokenizer.save_pretrained(tmp_store_directory)
StageTokenizer ==
  /\ pc = "stage_tokenizer"
  /\ \E ok \in BOOLEAN :
       IF ok
       THEN /\ fs' = [fs EXCEPT ![tmp_store_directory] = SaveTokenizer(@, tokenizer)]
            /\ Return("stage_tokenizer")
       ELSE /\ Raise("stage_tokenizer")
            /\ UNCHANGED fs
  /\ UNCHANGED << Env, hub, hubBefore, model, tokenizer, Pipelines, results, reads, Bench >>

\* The files of a directory.
FilesIn(files) == {f \in FileNames : files[f] # Absent}

\* The repository after the files `sent` of the staged directory arrived:
\* they replace the files of the same name, the others stay.
UploadedWithoutTokenizer(prior, staged, sent) ==
  [f \in FileNames |-> IF f \in sent \ {TokenizerFile} THEN staged[f] ELSE prior[f]]

UploadedWithoutConfig(prior, staged, sent) ==
  [f \in FileNames |-> IF f \in sent \ {ConfigFile} THEN staged[f] ELSE prior[f]]

Uploaded(prior, staged, sent) ==
  [f \in FileNames |-> IF f \in sent THEN staged[f] ELSE prior[f]]

\* model.push_to_hub(tmp_store_directory, repository_id=repository_id, use_auth_token=True)
\* The staged files go to the repository over the network, with no
\* transaction around them: the call returns when all of them arrived, and
\* raises when the upload is rejected or breaks off, whatever arrived stays.
Push ==
  /\ pc = "push"
  /\ LET staged == fs[tmp_store_directory] IN
     \E sent \in SUBSET FilesIn(staged) :
       /\ hub' = [hub EXCEPT ![DestRepo] = Uploaded(@, staged, sent)]
       /\ IF sent = FilesIn(staged) THEN Return("push") ELSE Raise("push")
  /\ UNCHANGED << Env, fs, hubBefore, model, tokenizer, Pipelines, results, reads, Bench >>

(* ---------------- cell: load from the Hub ---------------- *)

\* model = ORTModelForSequenceClassification.from_pretrained("philschmid/distilbert-onnx-banking77")
HubLoadModel ==
  /\ pc = "hub_load_model"
  /\ \E ok \in BOOLEAN :
       IF ok /\ CanLoadModel(hub[LoadRepo], "model.onnx")
       THEN /\ model' = LoadModel(hub[LoadRepo], "model.onnx")
            /\ Return("hub_load_model")
       ELSE /\ Raise("hub_load_model")
            /\ UNCHANGED model
  /\ UNCHANGED << Env, fs, hub, hubBefore, tokenizer, Pipelines, results, reads, Bench >>

\* tokenizer = AutoTokenizer.from_pretrained("philschmid/distilbert-onnx-banking77")
HubLoadTokenizer ==
  /\ pc = "hub_load_tokenizer"
  /\ \E ok \in BOOLEAN :
       IF ok /\ CanLoadTokenizer(hub[LoadRepo])
       THEN /\ tokenizer' = LoadTokenizer(hub[LoadRepo])
            /\ Return("hub_load_tokenizer")
       ELSE /\ Raise("hub_load_tokenizer")
            /\ UNCHANGED tokenizer
  /\ UNCHANGED << Env, fs, hub, hubBefore, model, Pipelines, results, reads, Bench >>

\* remote_clx = pipeline("text-classification", model=model, tokenizer=tokenizer)
RemoteClx ==
  /\ pc = "remote_clx"
  /\ \E ok \in BOOLEAN :
       IF ok
       THEN /\ remote_clx' = pipeline(model, tokenizer)
            /\ Return("remote_clx")
       ELSE /\ Raise("remote_clx")
            /\ UNCHANGED remote_clx
  /\ UNCHANGED << Env, fs, hub, hubBefore, model, tokenizer, vanilla_clf, optimized_clf,
                  q8_clf, results, reads, Bench >>

(* ---------------- the notebook ---------------- *)

Next ==
  \/ ExportModel
  \/ ExportTokenizer
  \/ SaveExportedModel
  \/ SaveExportedTokenizer
  \/ VanillaClf
  \/ Optimize
  \/ LoadOptimized
  \/ Quantize
  \/ Sizes
  \/ LoadQuantized
  \/ LoadLocalTokenizer
  \/ Q8Clf
  \/ Evaluate
  \/ Report
  \/ BenchEnter
  \/ BenchWarmupCall
  \/ BenchStartTimed
  \/ BenchTimedCall
  \/ BenchStats
  \/ BenchReport
  \/ Login
  \/ StageModel
  \/ StageTokenizer
  \/ Push
  \/ HubLoadModel
  \/ HubLoadTokenizer
  \/ RemoteClx

Spec == Init /\ [][Next]_vars

TypeOK ==
  /\ pc \in Labels
  /\ err \in {"none", "exception"}
  /\ status \in [Stages -> {"pending", "running", "done", "failed"}]
  /\ started \in [Stages -> Nat]
  /\ Len(latencies) <= TimedRuns

(* ======================= properties ======================= *)

ModelsIn(files) == {f \in ModelFiles : files[f] # Absent}

ExportedGraph == OnnxFile(<<"export">>, source.vocab)

OptimizedGraph == OnnxFile(<<"export", "optimize">>, source.vocab)

QuantizedGraph == OnnxFile(<<"export", "optimize", "quantize">>, source.vocab)

\* C1: the stages run strictly one after another: at most one stage is
\* running in any state, a stage has begun only if the stage before it is
\* done, and no stage is started more than once.
C1_StagesSequential ==
  /\ Cardinality({s \in Stages : status[s] = "running"}) <= 1
  /\ \A s \in Stages : started[s] <= 1
  /\ \A s \in Stages : (status[s] = "pending") <=> (started[s] = 0)
  /\ \A k \in 2..Len(StageOrder) :
       status[StageOrder[k]] # "pending" => status[StageOrder[k-1]] = "done"

C1_Witness ==
  /\ status["publish"] = "running"
  /\ pc = "push"
  /\ \A s \in {"export", "optimize", "quantize", "evaluate", "benchmark"} :
       status[s] = "done" /\ started[s] = 1

\* C2: the optimizer reads the exporter's artifact model.onnx, the quantizer
\* reads the optimizer's artifact model-optimized.onnx, the quantized artifact
\* is derived from the optimized one, and no stage reads a file that has not
\* been written.
C2_ConsumesPrevious ==
  /\ \A r \in reads :
       /\ r[3].kind = "onnx"
       /\ r[1] = "optimize" => r[2] = "model.onnx" /\ r[3] = ExportedGraph
       /\ r[1] = "quantize" => r[2] = "model-optimized.onnx" /\ r[3] = OptimizedGraph
  /\ status["optimize"] = "done" => \E r \in reads : r[1] = "optimize"
  /\ status["quantize"] = "done" =>
       /\ \E r \in reads : r[1] = "quantize"
       /\ fs[onnx_path]["model-quantized.onnx"] = QuantizedGraph

C2_Witness ==
  /\ status["quantize"] = "done"
  /\ << "quantize", "model-optimized.onnx", OptimizedGraph >> \in reads
  /\ << "optimize", "model.onnx", ExportedGraph >> \in reads

\* C3: a model artifact, once written, is never modified: optimize leaves
\* model.onnx as it was and quantize leaves model-optimized.onnx as it was.
C3_InputsUnchanged ==
  [][\A d \in Dirs : \A f \in ModelFiles :
       fs[d][f] # Absent => fs'[d][f] = fs[d][f]]_vars

C3_Witness ==
  /\ status["quantize"] = "done"
  /\ fs[onnx_path]["model.onnx"] = ExportedGraph
  /\ fs[onnx_path]["model-optimized.onnx"] = OptimizedGraph
  /\ fs[onnx_path]["model-quantized.onnx"] = QuantizedGraph

\* The files of a published bundle: the model, its configuration, the tokenizer.
BundleFiles == {"model.onnx", ConfigFile, TokenizerFile}

\* The repository holds the whole staged bundle.
HoldsBundle(files, staged) ==
  \A f \in BundleFiles : staged[f] # Absent /\ files[f] = staged[f]

PublishAttempted == status["publish"] \in {"done", "failed"}

\* C4 as stated: after any publish attempt, successful or not, the
\* destination holds either the complete new bundle or exactly its previous
\* content.
C4_PublishAtomic ==
  PublishAttempted =>
    \/ hub[DestRepo] = hubBefore
    \/ HoldsBundle(hub[DestRepo], fs[tmp_store_directory])

\* C4 as amended: a publish that fails while staging leaves the destination
\* exactly as it was; a publish that returns leaves the complete staged bundle
\* in the destination; a destination that holds neither its previous content
\* nor the complete bundle comes only from a push that broke off, which is
\* raised as an exception and not rolled back.
C4_PublishStagedThenPushed ==
  /\ status["publish"] = "running" => hub[DestRepo] = hubBefore
  /\ (status["publish"] = "failed" /\ failedAt \in {"stage_model", "stage_tokenizer"})
       => hub[DestRepo] = hubBefore
  /\ status["publish"] = "done" => HoldsBundle(hub[DestRepo], fs[tmp_store_directory])
  /\ status["publish"] = "failed" => err = "exception" /\ pc = "halted"
  /\ (PublishAttempted /\ hub[DestRepo] # hubBefore
        /\ ~HoldsBundle(hub[DestRepo], fs[tmp_store_directory]))
       => status["publish"] = "failed" /\ failedAt = "push" /\ err = "exception"

C4_Witness ==
  /\ status["publish"] = "failed"
  /\ failedAt = "push"
  /\ hub[DestRepo]["model.onnx"] = fs[tmp_store_directory]["model.onnx"]
  /\ hub[DestRepo][TokenizerFile] # fs[tmp_store_directory][TokenizerFile]
  /\ hub[DestRepo] # hubBefore

\* The model and the tokenizer of a pipeline belong together.
Compatible(p) == p.model.art.vocab = p.tokenizer.vocab

NoOutputOf(stage) ==
  CASE stage = "optimize" -> fs[onnx_path]["model-optimized.onnx"] = Absent
    [] stage = "quantize" -> fs[onnx_path]["model-quantized.onnx"] = Absent
    [] stage = "evaluate" -> results = NoResults
    [] stage = "load" -> remote_clx = NoPipeline
    [] OTHER -> TRUE

\* C6: when a statement raises, the exception is reported, the stage it
\* belongs to is failed and was started once, its output is not replaced by
\* a default, no later stage has begun, and nothing runs afterwards.
C6_FailFast ==
  /\ [](err # "none" =>
          /\ pc = "halted"
          /\ failedAt \in Labels \ {"halted", "finished"}
          /\ \A s \in Stages :
               /\ s = StageOf(failedAt) =>
                    status[s] = "failed" /\ started[s] = 1 /\ NoOutputOf(s)
               /\ IndexOf(FirstOf(s)) > IndexOf(failedAt) =>
                    status[s] = "pending" /\ started[s] = 0 /\ NoOutputOf(s)
               /\ status[s] = "failed" => s = StageOf(failedAt))
  /\ [](err = "none" => \A s \in Stages : status[s] # "failed")
  /\ [][pc # "halted"]_vars

C6_Witness ==
  /\ err = "exception"
  /\ failedAt = "quantize"
  /\ status["quantize"] = "failed"
  /\ status["optimize"] = "done"
  /\ status["evaluate"] = "pending"

\* C7: in measure_latency the warm-up calls all come before the first timed
\* call and add no sample; latencies holds one sample per timed call, in call
\* order, each the time that call took; the statistics are computed from the
\* TimedRuns samples of the timed calls.
C7_WarmupExcluded ==
  /\ \A k \in 1..Len(calls) :
       /\ calls[k].kind = IF k <= WarmupRuns THEN "warmup" ELSE "timed"
       /\ k > 1 => calls[k-1].end <= calls[k].start
  /\ Len(latencies) = Cardinality({k \in 1..Len(calls) : calls[k].kind = "timed"})
  /\ \A k \in 1..Len(latencies) :
       latencies[k] = calls[WarmupRuns + k].end - calls[WarmupRuns + k].start
  /\ bench.phase = "warmup" => Len(calls) = bench.i /\ latencies = <<>>
  /\ bench.phase = "timed" => Len(calls) = WarmupRuns + bench.i
  /\ vanilla_model # NoStats => vanilla_model.n = TimedRuns
  /\ quantized_model # NoStats => quantized_model.n = TimedRuns
  /\ (pc = "bench_q8" /\ bench.phase = "idle") =>
       Len(latencies) = TimedRuns /\ vanilla_model = Statistics(latencies)
  /\ pc = "bench_report" =>
       Len(latencies) = TimedRuns /\ quantized_model = Statistics(latencies)

C7_Witness ==
  /\ pc = "bench_report"
  /\ Len(calls) = WarmupRuns + TimedRuns
  /\ Len(latencies) = TimedRuns
  /\ calls[1].kind = "warmup"
  /\ calls[1].end - calls[1].start > latencies[1]
  /\ vanilla_model.n = TimedRuns
  /\ quantized_model.n = TimedRuns

\* Every model artifact of the directory has a preprocessor state of its own.
PairedOneToOne(files) ==
  Cardinality(ModelsIn(files)) = Cardinality({TokenizerFile} \cap FilesIn(files))

\* C8 as stated: after export, optimize, quantize and publish every model
\* artifact is paired 1:1 with its own copy of the preprocessor state.
C8_TokenizerCopiedEveryStage ==
  \A s \in {"export", "optimize", "quantize", "publish"} :
    status[s] = "done" => \A d \in Dirs : PairedOneToOne(fs[d])

\* C8 as amended: export writes the preprocessor state next to model.onnx;
\* optimize and quantize write a model file into the same directory and no
\* preprocessor state, so the three artifacts share the one copy written by
\* export, which stays as it was; publish stages one model with a copy of the
\* preprocessor state equal to that one, and pushes both.
C8_TokenizerSharedLocally ==
  /\ status["export"] = "done" =>
       /\ fs[onnx_path][TokenizerFile] = TokenizerOf(source.vocab)
       /\ "model.onnx" \in ModelsIn(fs[onnx_path])
  /\ status["optimize"] = "done" =>
       {"model.onnx", "model-optimized.onnx"} \subseteq ModelsIn(fs[onnx_path])
  /\ status["quantize"] = "done" => ModelsIn(fs[onnx_path]) = ModelFiles
  /\ status["publish"] = "done" =>
       /\ PairedOneToOne(fs[tmp_store_directory])
       /\ fs[tmp_store_directory][TokenizerFile] = fs[onnx_path][TokenizerFile]
       /\ hub[DestRepo][TokenizerFile] = fs[onnx_path][TokenizerFile]
       /\ hub[DestRepo]["model.onnx"] = fs[tmp_store_directory]["model.onnx"]

C8_Witness ==
  /\ status["publish"] = "done"
  /\ Cardinality(ModelsIn(fs[onnx_path])) = 3
  /\ fs[onnx_path][TokenizerFile] = TokenizerOf(source.vocab)
  /\ fs[tmp_store_directory][TokenizerFile] = TokenizerOf(source.vocab)

\* A pipeline can be built from the files of a directory alone.
Runnable(files, f) ==
  /\ CanLoadModel(files, f)
  /\ CanLoadTokenizer(files)
  /\ Compatible(pipeline(LoadModel(files, f), LoadTokenizer(files)))

\* C9: after export, optimize and quantize, the stage's output can be loaded
\* and run from what is in onnx/ alone, and the pipeline built that way is the
\* pipeline the notebook built for that artifact.
C9_OutputsLoadable ==
  /\ status["export"] = "done" => Runnable(fs[onnx_path], "model.onnx")
  /\ status["optimize"] = "done" => Runnable(fs[onnx_path], "model-optimized.onnx")
  /\ status["quantize"] = "done" => Runnable(fs[onnx_path], "model-quantized.onnx")
  /\ vanilla_clf # NoPipeline =>
       /\ vanilla_clf.model.art = fs[onnx_path]["model.onnx"]
       /\ vanilla_clf.model.config = fs[onnx_path][ConfigFile]
       /\ vanilla_clf.tokenizer = LoadTokenizer(fs[onnx_path])
  /\ optimized_clf # NoPipeline =>
       optimized_clf = pipeline(LoadModel(fs[onnx_path], "model-optimized.onnx"),
                                LoadTokenizer(fs[onnx_path]))
  /\ q8_clf # NoPipeline =>
       q8_clf = pipeline(LoadModel(fs[onnx_path], "model-quantized.onnx"),
                         LoadTokenizer(fs[onnx_path]))

C9_Witness ==
  /\ status["quantize"] = "done"
  /\ optimized_clf # NoPipeline
  /\ q8_clf # NoPipeline
  /\ q8_clf.model.art = QuantizedGraph

C11_LabelMappingRoundTrip ==
  (status["publish"] = "done" /\ status["load"] = "done" /\ DestRepo = LoadRepo) =>
    /\ remote_clx.model.config.labels = fs[tmp_store_directory][ConfigFile].labels
    /\ remote_clx.model.config.labels = q8_clf.model.config.labels
    /\ remote_clx.model.config.labels = source.labels

C11_Witness ==
  /\ status["publish"] = "done"
  /\ status["load"] = "done"
  /\ DestRepo = LoadRepo
  /\ hubBefore[ConfigFile] = ConfigOf(1)
  /\ source.labels = NumCheckpoints
  /\ remote_clx.model.config = ConfigOf(NumCheckpoints)

\* C12: whatever accuracy the evaluation reported, the quantized artifact
\* stays where it is and the quantized pipeline stays as it was built, the
\* run goes on to the benchmark and to publish, and the run stops only on an
\* exception, never on the accuracy.
C12_NoRollback ==
  /\ status["evaluate"] = "done" =>
       /\ results.accuracy \in 0..MaxAccuracy
       /\ fs[onnx_path]["model-quantized.onnx"] = QuantizedGraph
       /\ q8_clf.model.art = QuantizedGraph
  /\ pc = "halted" => err = "exception"
  /\ pc = "report" => ENABLED Report
  /\ (pc = "bench_vanilla" /\ bench.phase = "idle") => ENABLED BenchEnter
  /\ pc = "stage_model" => ENABLED StageModel
  /\ pc = "push" => ENABLED Push
  /\ status["publish"] = "done" =>
       hub[DestRepo]["model.onnx"] = fs[onnx_path]["model-quantized.onnx"]

C12_Witness ==
  /\ results.accuracy = 0
  /\ status["benchmark"] = "done"
  /\ status["publish"] = "done"
  /\ fs[onnx_path]["model-quantized.onnx"] = QuantizedGraph
  /\ hub[DestRepo]["model.onnx"] = QuantizedGraph

\* The pipeline a running measure_latency calls.
Measured == IF bench.pipe = "vanilla_clf" THEN vanilla_clf ELSE q8_clf

\* C13: a pipeline keeps the model it was built with: once built, vanilla_clf
\* runs the exported graph and optimized_clf the optimized graph also after
\* `model` has been bound to the optimized, the quantized and the loaded
\* model; measure_latency(vanilla_clf) measures the exported graph and
\* measure_latency(q8_clf) the quantized one.
C13_PipelinesKeepTheirModel ==
  /\ vanilla_clf # NoPipeline =>
       vanilla_clf.model.art = ExportedGraph /\ vanilla_clf.model.file = "model.onnx"
  /\ optimized_clf # NoPipeline =>
       /\ optimized_clf.model.art = OptimizedGraph
       /\ optimized_clf.model.file = "model-optimized.onnx"
  /\ q8_clf # NoPipeline =>
       q8_clf.model.art = QuantizedGraph /\ q8_clf.model.file = "model-quantized.onnx"
  /\ bench.phase # "idle" =>
       /\ pc = "bench_vanilla" => bench.pipe = "vanilla_clf"
       /\ pc = "bench_q8" => bench.pipe = "q8_clf"
       /\ Measured.model.art =
            IF bench.pipe = "vanilla_clf" THEN ExportedGraph ELSE QuantizedGraph
       /\ model.art = QuantizedGraph
  /\ vanilla_model # NoStats => vanilla_clf.model.art = ExportedGraph
  /\ quantized_model # NoStats => q8_clf.model.art = QuantizedGraph

C13_Witness ==
  /\ pc = "bench_vanilla"
  /\ bench.phase = "timed"
  /\ bench.pipe = "vanilla_clf"
  /\ model.art = QuantizedGraph
  /\ vanilla_clf.model.art = ExportedGraph
  /\ optimized_clf.model.art = OptimizedGraph

\* C14: while the publish cell runs, `model` is the object loaded from
\* model-quantized.onnx and `tokenizer` the one loaded from the same
\* directory; what is staged and what reaches the destination as model.onnx
\* is the quantized graph, never the exported or the optimized-only graph.
C14_PublishesQuantized ==
  /\ pc \in {"stage_model", "stage_tokenizer", "push"} =>
       /\ model.file = "model-quantized.onnx"
       /\ model.art = fs[onnx_path]["model-quantized.onnx"]
       /\ model.art = QuantizedGraph
       /\ tokenizer = fs[onnx_path][TokenizerFile]
       /\ model = q8_clf.model
  /\ fs[tmp_store_directory]["model.onnx"] \in {Absent, QuantizedGraph}
  /\ fs[tmp_store_directory][TokenizerFile] \in {Absent, fs[onnx_path][TokenizerFile]}
  /\ \A f \in ModelFiles \ {"model.onnx"} : fs[tmp_store_directory][f] = Absent
  /\ status["publish"] # "pending" =>
       \A f \in ModelFiles : hub[DestRepo][f] \in {hubBefore[f], QuantizedGraph}
  /\ status["publish"] = "done" =>
       /\ hub[DestRepo]["model.onnx"] = QuantizedGraph
       /\ hub[DestRepo]["model.onnx"] \notin {ExportedGraph, OptimizedGraph}

C14_Witness ==
  /\ status["publish"] = "done"
  /\ fs[tmp_store_directory]["model.onnx"] = QuantizedGraph
  /\ hub[DestRepo]["model.onnx"] = QuantizedGraph
  /\ hub[DestRepo][TokenizerFile] = fs[onnx_path][TokenizerFile]
  /\ fs[onnx_path]["model.onnx"] = ExportedGraph

====
